---- MODULE Spec2Model ----
(***************************************************************************)
(* Model of the jane-doe sampling library (src/src/lib.rs):                *)
(*   - FreqChoice: cumulative-frequency table, from_items and sample_at    *)
(*   - SamplerPair: two samplers and a combiner                            *)
(*   - UniqueSampler: iterator of distinct samples over a Bloom filter     *)
(* Vector indices are 0-based as in the source; Cum/Item translate them to *)
(* the 1-based sequences of TLA+.  The numeric type N is modelled by the   *)
(* integers (sums stay far below the range of the u64 used by the crate).  *)
(***************************************************************************)
EXTENDS Integers, Sequences, FiniteSets, TLC

\* ---------------------------------------------------------------- bounds
\* Tables of up to MaxLen entries take weights in -1..MaxWeight; longer
\* tables, up to MaxUnitLen entries, take weights in UnitWeights.
MaxLen == 3
MaxWeight == 3
MaxUnitLen == 7
UnitWeights == {0, 1}

\* The item stored at each position of an input (distinct per position).
ItemName == <<"a", "b", "c", "d", "e", "f", "g", "h", "i", "j">>

WeightSeqs ==
    (UNION {[1..n -> (-1)..MaxWeight] : n \in 0..MaxLen})
    \cup (UNION {[1..n -> UnitWeights] : n \in (MaxLen + 1)..MaxUnitLen})

Inputs == {[i \in 1..Len(w) |-> <<w[i], ItemName[i]>>] : w \in WeightSeqs}

\* ------------------------------------------------------------ FreqChoice
VARIABLES items, table, x, lb, ub, pc, ret

\* SamplerPair.  first, second: the inputs and then the tables of the two
\* held samplers; calls: the gen_range calls made on the shared generator by
\* the current sample_using, in order; a, b: the arguments of the combiner.
VARIABLES first, second, calls, a, b, ppc, result

\* UniqueSampler.  source: the items the underlying sampler can return;
\* seen: the items the Bloom filter reports present; rng: the position of
\* the generator in its stream; yielded: the items returned so far; last:
\* what the latest next() returned.
VARIABLES source, count, seen, remaining, rng, spc, yielded, last

tvars == <<items, table, x, lb, ub, pc, ret>>
pvars == <<first, second, calls, a, b, ppc, result>>
svars == <<source, count, seen, remaining, rng, spc, yielded, last>>
vars == <<tvars, pvars, svars>>

\* Option<FreqChoice>
None == [tag |-> "None"]
Some(d, t) == [tag |-> "Some", data |-> d, total |-> t]

\* self.data[i].0 and self.data[i].1, i a 0-based index
Cum(data, i) == data[i + 1][1]
Item(data, i) == data[i + 1][2]
InRange(data, i) == 0 <= i /\ i < Len(data)

\* The for loop of from_items followed by the final test, from position i on.
RECURSIVE from_items_loop(_, _, _, _)
from_items_loop(its, i, cumulative_freq, out) ==
    IF i > Len(its)
    THEN IF cumulative_freq <= 0 THEN None ELSE Some(out, cumulative_freq)
    ELSE LET freq == its[i][1]
             value == its[i][2]
         IN IF freq < 0
            THEN None
            ELSE from_items_loop(its, i + 1, cumulative_freq + freq,
                                 Append(out, <<cumulative_freq + freq, value>>))

\* faulty variant: stores the weight itself instead of the running total
RECURSIVE from_items_raw(_, _, _, _)
from_items_raw(its, i, cumulative_freq, out) ==
    IF i > Len(its)
    THEN IF cumulative_freq <= 0 THEN None ELSE Some(out, cumulative_freq)
    ELSE LET freq == its[i][1]
             value == its[i][2]
         IN IF freq < 0
            THEN None
            ELSE from_items_raw(its, i + 1, cumulative_freq + freq,
                                Append(out, <<freq, value>>))

from_items_stores_weight(its) == from_items_raw(its, 1, 0, <<>>)

\* faulty variant: the final test accepts a zero total, and negative weights pass
RECURSIVE from_items_lax(_, _, _, _)
from_items_lax(its, i, cumulative_freq, out) ==
    IF i > Len(its)
    THEN IF cumulative_freq < 0 THEN None ELSE Some(out, cumulative_freq)
    ELSE from_items_lax(its, i + 1, cumulative_freq + its[i][1],
                        Append(out, <<cumulative_freq + its[i][1], its[i][2]>>))

from_items_unchecked(its) == from_items_lax(its, 1, 0, <<>>)

from_items(its) == from_items_loop(its, 1, 0, <<>>)

\* One pass through the body of the galloping loop (condition already true).
\* faulty variant: no clamp of ub to the last index
GallopBody_noclamp(n, l, u) == [lb |-> u + 1, ub |-> 2 * u, brk |-> FALSE]

GallopBody(n, l, u) ==
    IF 2 * u >= n
    THEN [lb |-> u + 1, ub |-> n - 1, brk |-> TRUE]
    ELSE [lb |-> u + 1, ub |-> 2 * u, brk |-> FALSE]

\* One pass through the body of the binary-search loop (lb < ub).
\* faulty variant: compares with <= instead of <
BSearchBody_le(data, off, l, u) ==
    LET middle == (l + u) \div 2
    IN IF off <= Cum(data, middle)
       THEN [lb |-> l, ub |-> middle]
       ELSE [lb |-> middle + 1, ub |-> u]

BSearchBody(data, off, l, u) ==
    LET middle == (l + u) \div 2
    IN IF off < Cum(data, middle)
       THEN [lb |-> l, ub |-> middle]
       ELSE [lb |-> middle + 1, ub |-> u]

\* sample_at run to completion; the index it ends on.
RECURSIVE BSearchRun(_, _, _, _)
BSearchRun(data, off, l, u) ==
    IF l < u
    THEN LET s == BSearchBody(data, off, l, u) IN BSearchRun(data, off, s.lb, s.ub)
    ELSE l

RECURSIVE GallopRun(_, _, _, _)
GallopRun(data, off, l, u) ==
    IF off >= Cum(data, u)
    THEN LET s == GallopBody(Len(data), l, u)
         IN IF s.brk
            THEN BSearchRun(data, off, s.lb, s.ub)
            ELSE GallopRun(data, off, s.lb, s.ub)
    ELSE BSearchRun(data, off, l, u)

sample_at_index(data, off) ==
    IF off < Cum(data, 0) THEN 0 ELSE GallopRun(data, off, 1, 1)

sample_at(data, off) == Item(data, sample_at_index(data, off))

TableInit ==
    /\ items \in Inputs
    /\ table = [tag |-> "unbuilt"]
    /\ x = 0
    /\ lb = 0
    /\ ub = 0
    /\ pc = "start"
    /\ ret = "none"

\* FreqChoice::from_items(items)
Build ==
    /\ pc = "start"
    /\ table' = from_items(items)
    /\ pc' = IF table'.tag = "Some" THEN "built" ELSE "failed"
    /\ UNCHANGED <<items, x, lb, ub, ret>>
    /\ UNCHANGED <<pvars, svars>>

\* sample_at(off) up to the first evaluation of the galloping loop's
\* condition: the first-entry shortcut, the assertion n >= 2, lb = ub = 1.
SampleAtEnter ==
    /\ pc = "built"
    /\ \E off \in 0..(table.total - 1) :
        /\ x' = off
        /\ IF ~InRange(table.data, 0)
           THEN pc' = "panic" /\ UNCHANGED <<lb, ub, ret>>
           ELSE IF off < Cum(table.data, 0)
           THEN pc' = "done" /\ ret' = Item(table.data, 0) /\ UNCHANGED <<lb, ub>>
           ELSE IF ~(Len(table.data) >= 2)
           THEN pc' = "panic" /\ UNCHANGED <<lb, ub, ret>>
           ELSE pc' = "gallop" /\ lb' = 1 /\ ub' = 1 /\ UNCHANGED ret
    /\ UNCHANGED <<items, table>>
    /\ UNCHANGED <<pvars, svars>>

\* One evaluation of `while x >= self.data[ub].0` and, if true, its body.
GallopStep ==
    /\ pc = "gallop"
    /\ IF ~InRange(table.data, ub)
       THEN pc' = "panic" /\ UNCHANGED <<lb, ub>>
       ELSE IF x >= Cum(table.data, ub)
       THEN LET s == GallopBody(Len(table.data), lb, ub)
            IN /\ lb' = s.lb
               /\ ub' = s.ub
               /\ pc' = IF s.brk THEN "bsearch" ELSE "gallop"
       ELSE pc' = "bsearch" /\ UNCHANGED <<lb, ub>>
    /\ UNCHANGED <<items, table, x, ret>>
    /\ UNCHANGED <<pvars, svars>>

\* One evaluation of `while lb < ub` and its body; on exit the assertion
\* lb == ub and the final read of self.data[lb].
BSearchStep ==
    /\ pc = "bsearch"
    /\ IF lb < ub
       THEN IF ~InRange(table.data, (lb + ub) \div 2)
            THEN pc' = "panic" /\ UNCHANGED <<lb, ub, ret>>
            ELSE LET s == BSearchBody(table.data, x, lb, ub)
                 IN lb' = s.lb /\ ub' = s.ub /\ pc' = "bsearch" /\ UNCHANGED ret
       ELSE IF lb # ub \/ ~InRange(table.data, lb)
            THEN pc' = "panic" /\ UNCHANGED <<lb, ub, ret>>
            ELSE pc' = "done" /\ ret' = Item(table.data, lb) /\ UNCHANGED <<lb, ub>>
    /\ UNCHANGED <<items, table, x>>
    /\ UNCHANGED <<pvars, svars>>

TableNext == Build \/ SampleAtEnter \/ GallopStep \/ BSearchStep

TableIdle ==
    /\ items = <<>>
    /\ table = [tag |-> "unbuilt"]
    /\ x = 0
    /\ lb = 0
    /\ ub = 0
    /\ pc = "off"
    /\ ret = "none"

\* ----------------------------------------------------------- SamplerPair
GivenNames == <<"Jane", "Ann">>
Surnames == <<"Doe", "Roe">>

PairInputs(names) ==
    UNION {{[i \in 1..n |-> <<w[i], names[i]>>] : w \in [1..n -> 0..MaxWeight]}
              : n \in 1..Len(names)}

\* the closure of us_names
combiner(f, l) == f \o " " \o l

\* Rust evaluates the arguments of a call from left to right.
\* faulty variant: second argument evaluated first
ArgOrder_swapped == <<"second", "first">>

ArgOrder == <<"first", "second">>

PairInit ==
    /\ first \in PairInputs(GivenNames)
    /\ second \in PairInputs(Surnames)
    /\ calls = <<>>
    /\ a = "none"
    /\ b = "none"
    /\ ppc = "start"
    /\ result = "none"

\* get_source_sampler for both fields of the pair: from_items(..).expect(..)
PairBuild ==
    /\ ppc = "start"
    /\ LET f == from_items(first)
           s == from_items(second)
       IN IF f.tag = "Some" /\ s.tag = "Some"
          THEN first' = f /\ second' = s /\ ppc' = "idle"
          ELSE ppc' = "panic" /\ UNCHANGED <<first, second>>
    /\ UNCHANGED <<calls, a, b, result>>
    /\ UNCHANGED <<tvars, svars>>

\* entry of SamplerPair::sample_using
PairCall ==
    /\ ppc = "idle"
    /\ ppc' = "args"
    /\ calls' = <<>>
    /\ a' = "none"
    /\ b' = "none"
    /\ result' = "none"
    /\ UNCHANGED <<first, second>>
    /\ UNCHANGED <<tvars, svars>>

\* the next argument: FreqChoice::sample_using on the shared generator
PairDraw ==
    /\ ppc = "args"
    /\ Len(calls) < 2
    /\ LET who == ArgOrder[Len(calls) + 1]
           t == IF who = "first" THEN first ELSE second
       IN \E off \in 0..(t.total - 1) :
            /\ calls' = Append(calls, [by |-> who, range |-> t.total, value |-> off])
            /\ IF who = "first"
               THEN a' = sample_at(t.data, off) /\ UNCHANGED b
               ELSE b' = sample_at(t.data, off) /\ UNCHANGED a
    /\ UNCHANGED <<first, second, ppc, result>>
    /\ UNCHANGED <<tvars, svars>>

\* the call of the combiner and the return
PairCombine ==
    /\ ppc = "args"
    /\ Len(calls) = 2
    /\ result' = combiner(a, b)
    /\ ppc' = "idle"
    /\ UNCHANGED <<first, second, calls, a, b>>
    /\ UNCHANGED <<tvars, svars>>

PairNext == PairBuild \/ PairCall \/ PairDraw \/ PairCombine

PairIdle ==
    /\ first = <<>>
    /\ second = <<>>
    /\ calls = <<>>
    /\ a = "none"
    /\ b = "none"
    /\ ppc = "off"
    /\ result = "none"

\* --------------------------------------------------------- UniqueSampler
\* The underlying sampler is given by the set of items it can return; the
\* Bloom filter by the set of items it reports as present (it never clears
\* a bit, so this set only grows, and it holds every item inserted).
MaxItems == 3
MaxCount == 4
RngPeriod == 2

NoCall == [tag |-> "nocall"]
SomeItem(v) == [tag |-> "Some", val |-> v]

\* `self.remaining == 0`
\* faulty variant: the test never succeeds
Exhausted_never(r) == r < 0

\* faulty variant: off by one
Exhausted_le1(r) == r <= 1

Exhausted(r) == r = 0

\* self.seen.check_and_set(&x): whether x was reported present, and the
\* filter afterwards.  Inserting x may make other items collide with the
\* bits now set (false positives); an item reported present stays so.
\* faulty variant: checks without inserting
CheckAndSet_noset(s, v, src) == {[present |-> v \in s, seen |-> s]}

CheckAndSet(s, v, src) ==
    IF v \in s
    THEN {[present |-> TRUE, seen |-> s]}
    ELSE {[present |-> FALSE, seen |-> s \cup {v} \cup fp] :
             fp \in SUBSET (src \ (s \cup {v}))}

\* `self.remaining -= 1` inside `if ! check_and_set`
\* faulty variant: decrement on every draw
RemainingAfter_always(present, r) == r - 1

\* faulty variant: no decrement
RemainingAfter_never(present, r) == r

RemainingAfter(present, r) == IF ~present THEN r - 1 ELSE r

\* UniqueSampler::new(source, count, rng)
StreamInit ==
    /\ \E p \in 1..MaxItems : source = 1..p
    /\ count \in 0..MaxCount
    /\ seen = {}
    /\ remaining = count
    /\ rng = 0
    /\ spc = "idle"
    /\ yielded = <<>>
    /\ last = NoCall

\* next() on an exhausted stream: return None
NextExhausted ==
    /\ spc = "idle"
    /\ Exhausted(remaining)
    /\ last' = None
    /\ UNCHANGED <<source, count, seen, remaining, rng, spc, yielded>>
    /\ UNCHANGED <<tvars, pvars>>

\* next() otherwise: enter the loop
NextEnter ==
    /\ spc = "idle"
    /\ ~Exhausted(remaining)
    /\ spc' = "loop"
    /\ UNCHANGED <<source, count, seen, remaining, rng, yielded, last>>
    /\ UNCHANGED <<tvars, pvars>>

\* one iteration of the loop in which the sampler returns v
Draw(v) ==
    /\ spc = "loop"
    /\ v \in source
    /\ rng' = (rng + 1) % RngPeriod
    /\ \E r \in CheckAndSet(seen, v, source) :
        /\ seen' = r.seen
        /\ remaining' = RemainingAfter(r.present, remaining)
        /\ IF ~r.present
           THEN /\ yielded' = Append(yielded, v)
                /\ last' = SomeItem(v)
                /\ spc' = "idle"
           ELSE UNCHANGED <<yielded, last, spc>>
    /\ UNCHANGED <<source, count>>
    /\ UNCHANGED <<tvars, pvars>>

LoopIter == \E v \in 1..MaxItems : Draw(v)

StreamNext == NextExhausted \/ NextEnter \/ LoopIter

StreamIdle ==
    /\ source = {}
    /\ count = 0
    /\ seen = {}
    /\ remaining = 0
    /\ rng = 0
    /\ spc = "off"
    /\ yielded = <<>>
    /\ last = NoCall

\* -------------------------------------------------------- specifications
InitTable == TableInit /\ PairIdle /\ StreamIdle
InitPair == PairInit /\ TableIdle /\ StreamIdle
InitStream == StreamInit /\ TableIdle /\ PairIdle

SpecTable == InitTable /\ [][TableNext]_vars

SpecPair == InitPair /\ [][PairNext]_vars

SpecStream == InitStream /\ [][StreamNext]_vars

\* The caller keeps draining the stream and the sampler keeps returning
\* every item it can return.
FairSpecStream ==
    /\ SpecStream
    /\ WF_vars(NextEnter)
    /\ \A v \in 1..MaxItems : WF_vars(Draw(v))

\* ------------------------------------------------- FreqChoice: properties
HasNegative(its) == \E i \in 1..Len(its) : its[i][1] < 0
AllNonPositive(its) == \A i \in 1..Len(its) : its[i][1] <= 0

RECURSIVE SumTo(_, _)
SumTo(its, k) == IF k = 0 THEN 0 ELSE SumTo(its, k - 1) + its[k][1]

\* The smallest index whose cumulative weight exceeds off, by definition.
LinearScan(data, off) ==
    CHOOSE i \in 0..(Len(data) - 1) :
        /\ Cum(data, i) > off
        /\ \A j \in 0..(i - 1) : Cum(data, j) <= off

\* C4: an input with no negative weight and some positive weight builds a
\* table with one entry per pair, in order, each holding the running sum of
\* the weights up to it; the sums are non-decreasing and total is the sum of
\* all weights, is positive and is the last cumulative weight.
C4_BuildValid ==
    (pc # "start" /\ ~HasNegative(items) /\ ~AllNonPositive(items)) =>
        /\ table.tag = "Some"
        /\ Len(table.data) = Len(items)
        /\ \A i \in 1..Len(items) :
              table.data[i] = <<SumTo(items, i), items[i][2]>>
        /\ \A i \in 1..(Len(items) - 1) : table.data[i][1] <= table.data[i + 1][1]
        /\ table.total = SumTo(items, Len(items))
        /\ table.total > 0
        /\ table.total = table.data[Len(items)][1]

C4_Witness ==
    /\ pc = "built"
    /\ Len(items) = 3
    /\ items[1][1] = 2 /\ items[2][1] = 0 /\ items[3][1] = 3
    /\ table.total = 5

\* C5 as stated: every input with a negative weight, and every input without
\* one whose weights are all <= 0, is rejected, and the two kinds of failure
\* reach the caller as different values.
C5_DistinctErrors ==
    /\ (pc # "start" /\ (HasNegative(items) \/ AllNonPositive(items))) =>
          table.tag # "Some"
    /\ \A other \in Inputs :
          (pc = "failed" /\ HasNegative(items)
             /\ ~HasNegative(other) /\ AllNonPositive(other)) =>
                table # from_items(other)

\* C5 amended: every such input is rejected and no table is returned, but
\* the value returned is None in both cases.
C5_RejectsWithNone ==
    (pc # "start" /\ (HasNegative(items) \/ AllNonPositive(items))) =>
        /\ pc = "failed"
        /\ table = None

C5_Witness ==
    /\ pc = "failed"
    /\ Len(items) = 2
    /\ items[1][1] > 0
    /\ items[2][1] < 0

\* C2: sample_at returns the item at the smallest index whose cumulative
\* weight exceeds the offset; hence each entry owns as many offsets of
\* [0, total) as its weight, and a zero-weight entry owns none.
C2_Lookup ==
    /\ pc = "done" => ret = Item(table.data, LinearScan(table.data, x))
    /\ pc = "built" =>
          \A i \in 1..Len(items) :
              Cardinality({o \in 0..(table.total - 1) :
                              sample_at(table.data, o) = items[i][2]})
                  = items[i][1]

C2_Witness ==
    /\ pc = "done"
    /\ Len(table.data) = 7
    /\ items[3][1] = 0
    /\ lb = 6
    /\ ret = "g"

\* C3: sample_at never reads outside 0..n-1 and never fails an assertion;
\* at every evaluation of the galloping condition n >= 2, 1 <= lb, ub < n
\* and x >= cumulative[lb-1]; throughout the binary search lb <= ub < n,
\* x < cumulative[ub] and x >= cumulative[lb-1]; it ends with lb = ub.
C3_InBounds ==
    /\ pc # "panic"
    /\ pc = "gallop" =>
          /\ Len(table.data) >= 2
          /\ 1 <= lb /\ 1 <= ub
          /\ ub < Len(table.data)
          /\ lb <= Len(table.data)
          /\ x >= Cum(table.data, lb - 1)
    /\ pc = "bsearch" =>
          /\ 1 <= lb /\ lb <= ub
          /\ ub < Len(table.data)
          /\ x < Cum(table.data, ub)
          /\ x >= Cum(table.data, lb - 1)
    /\ pc = "done" => lb = ub

C3_Witness ==
    /\ pc = "bsearch"
    /\ Len(table.data) = 7
    /\ lb = 5
    /\ ub = 6

\* ------------------------------------------------ SamplerPair: properties
\* C9: a sample_using that has returned made exactly two draws on the
\* shared generator, the first sampler's and then the second sampler's,
\* each over that sampler's own range, and returned the combiner applied to
\* the two items drawn; once both tables are built it cannot fail.  The
\* tables [(1,"Jane")] and [(1,"Doe")] always give "Jane Doe".
C9_PairOrder ==
    /\ ppc = "args" =>
          /\ Len(calls) <= 2
          /\ \A k \in 1..Len(calls) : calls[k].by = <<"first", "second">>[k]
    /\ (ppc = "idle" /\ result # "none") =>
          /\ Len(calls) = 2
          /\ calls[1].by = "first" /\ calls[1].range = first.total
          /\ calls[2].by = "second" /\ calls[2].range = second.total
          /\ a = Item(first.data, LinearScan(first.data, calls[1].value))
          /\ b = Item(second.data, LinearScan(second.data, calls[2].value))
          /\ result = a \o " " \o b
          /\ (first.data = <<<<1, "Jane">>>> /\ second.data = <<<<1, "Doe">>>>) =>
                result = "Jane Doe"

C9_Witness ==
    /\ ppc = "idle"
    /\ result = "Jane Doe"
    /\ first.data = <<<<1, "Jane">>>>
    /\ second.data = <<<<1, "Doe">>>>

\* ---------------------------------------------- UniqueSampler: properties
Range(f) == {f[i] : i \in 1..Len(f)}
NoRepeat(f) == \A i, j \in 1..Len(f) : i # j => f[i] # f[j]

\* C1: no item is yielded twice, and every item yielded is reported present
\* by the membership set from then on.
C1_Unique ==
    /\ NoRepeat(yielded)
    /\ Range(yielded) \subseteq seen

C1_Witness ==
    /\ Len(yielded) = 3
    /\ rng = 0
    /\ spc = "idle"

C8_ExhaustedStays ==
    [][remaining = 0 =>
          /\ remaining' = 0
          /\ seen' = seen
          /\ rng' = rng
          /\ yielded' = yielded
          /\ spc' = "idle"
          /\ last' = None]_vars

C8_Witness ==
    /\ remaining = 0
    /\ last = None
    /\ Len(yielded) = 2
    /\ count = 2

C10_Hangs ==
    /\ [](Cardinality(source) < count =>
            /\ remaining > 0
            /\ last # None
            /\ NoRepeat(yielded)
            /\ Len(yielded) <= Cardinality(source))
    /\ [][(Cardinality(source) < count /\ spc = "loop" /\ source \subseteq seen) =>
              (spc' = "loop" /\ yielded' = yielded /\ last' = last)]_vars
    /\ (Cardinality(source) < count => <>[](spc = "loop"))

C10_Witness ==
    /\ Cardinality(source) = 2
    /\ count = 3
    /\ Len(yielded) = 2
    /\ spc = "loop"
    /\ rng = 1
====
